---- MODULE Spec2Model ----
(***************************************************************************)
(* TPKTilesets: export of an ArcGIS tile package (.tpk) to a z/x/y tile    *)
(* tree.  The model follows src/index.js (the command-line driver) and     *)
(* src/helper.js (class TPK: constructor, saveTiles, readTiles).           *)
(*                                                                         *)
(* Strings that the code converts (format names, bundle file names, LOD    *)
(* folder names) are sequences of one-character strings, so toLowerCase,   *)
(* toUpperCase, substr, replace, parseInt and Number are computed          *)
(* character by character as JavaScript computes them.                     *)
(***************************************************************************)
EXTENDS Integers, Sequences, FiniteSets, TLC

---------------------------------------------------------------------------
(* Bounds of the model *)

\* Side of a bundle's tile grid.  The program uses 128 (src/helper.js:10);
\* the model keeps the code's arithmetic and scales the side down.
BUNDLE_DIM == 3

\* program runs (processes) in one behaviour
MaxRuns == 2

---------------------------------------------------------------------------
(* JavaScript values *)

\* NaN and undefined, kept apart from every number the program computes
\* (offsets and indexes are >= 0, zoom levels lie between -31 and 31)
NaN == 0 - 2^30
Undefined == 0 - 2^30 - 1

UpperChars == <<"A","B","C","D","E","F","G","H","I","J","K","L","M",
                "N","O","P","Q","R","S","T","U","V","W","X","Y","Z">>
LowerChars == <<"a","b","c","d","e","f","g","h","i","j","k","l","m",
                "n","o","p","q","r","s","t","u","v","w","x","y","z">>
DigitChars == <<"0","1","2","3","4","5","6","7","8","9">>

IndexIn(c, chars) == IF \E i \in DOMAIN chars : chars[i] = c
                     THEN CHOOSE i \in DOMAIN chars : chars[i] = c
                     ELSE 0

\* String.prototype.toLowerCase as the identity: a comparison that forgets
\* to fold the case
toLowerCase_none(s) == s

\* String.prototype.toLowerCase
toLowerCase(s) ==
    [i \in DOMAIN s |-> IF IndexIn(s[i], UpperChars) > 0
                        THEN LowerChars[IndexIn(s[i], UpperChars)]
                        ELSE s[i]]

\* String.prototype.toUpperCase
toUpperCase(s) ==
    [i \in DOMAIN s |-> IF IndexIn(s[i], LowerChars) > 0
                        THEN UpperChars[IndexIn(s[i], LowerChars)]
                        ELSE s[i]]

\* s.replace(/[0-9]/g, "")
RECURSIVE stripDigits(_)
stripDigits(s) ==
    IF s = <<>> THEN <<>>
    ELSE IF IndexIn(Head(s), DigitChars) > 0 THEN stripDigits(Tail(s))
         ELSE <<Head(s)>> \o stripDigits(Tail(s))

\* s.substr(start, length), start counted from 0
substr(s, start, length) ==
    LET last == IF start + length < Len(s) THEN start + length ELSE Len(s)
    IN  IF start >= Len(s) THEN <<>> ELSE SubSeq(s, start + 1, last)

\* s.replace("L", ""): the first occurrence only
RECURSIVE replaceFirst(_, _)
replaceFirst(s, c) ==
    IF s = <<>> THEN <<>>
    ELSE IF Head(s) = c THEN Tail(s)
         ELSE <<Head(s)>> \o replaceFirst(Tail(s), c)

\* the digit read in radix 10: a letter ends the number
HexDigit_decimal(c) ==
    IF IndexIn(c, DigitChars) > 0 THEN IndexIn(c, DigitChars) - 1 ELSE NaN

\* value of one digit in radix 16, or NaN
HexDigit(c) ==
    IF IndexIn(c, DigitChars) > 0 THEN IndexIn(c, DigitChars) - 1
    ELSE IF IndexIn(c, UpperChars) \in 1..6 THEN 9 + IndexIn(c, UpperChars)
    ELSE IF IndexIn(c, LowerChars) \in 1..6 THEN 9 + IndexIn(c, LowerChars)
    ELSE NaN

\* parseInt(s, 16): the value of the longest prefix of hex digits, NaN when
\* that prefix is empty (the names of the model hold no sign, blank or 0x)
RECURSIVE hexPrefix(_, _)
hexPrefix(s, acc) ==
    IF s = <<>> \/ HexDigit(Head(s)) = NaN THEN acc
    ELSE hexPrefix(Tail(s), 16 * acc + HexDigit(Head(s)))

parseInt16(s) ==
    IF s = <<>> \/ HexDigit(Head(s)) = NaN THEN NaN ELSE hexPrefix(s, 0)

\* Number(s) of a string: 0 for the empty string, the decimal value of a
\* string of digits, NaN for anything else the model's folder names hold
RECURSIVE decValue(_, _)
decValue(s, acc) ==
    IF s = <<>> THEN acc
    ELSE IF IndexIn(Head(s), DigitChars) = 0 THEN NaN
         ELSE decValue(Tail(s), 10 * acc + IndexIn(Head(s), DigitChars) - 1)

NumberOf(s) == decValue(s, 0)

\* array[n] of a JavaScript array held as a sequence: undefined off the end
\* and for a NaN index
ArrayAt(arr, n) ==
    IF n # NaN /\ n >= 0 /\ n < Len(arr) THEN arr[n + 1] ELSE Undefined

\* truthiness of a number or undefined: if (z)
Truthy(z) == z # Undefined /\ z # NaN /\ z # 0

\* zoom.sort((a, b) => a - b): ascending, stable, duplicates kept
RECURSIVE insertSorted(_, _)
insertSorted(x, s) ==
    IF s = <<>> THEN <<x>>
    ELSE IF x < Head(s) THEN <<x>> \o s
         ELSE <<Head(s)>> \o insertSorted(x, Tail(s))

RECURSIVE sortAscending(_)
sortAscending(s) ==
    IF s = <<>> THEN <<>>
    ELSE insertSorted(s[Len(s)], sortAscending(SubSeq(s, 1, Len(s) - 1)))

---------------------------------------------------------------------------
(* Zoom level of a resolution *)

\* WORLD_CIRCUMFERENCE * sqrt(2), in whole metres.  Math.round(v) >= k iff
\* v >= k - 1/2, so round(log2(WORLD_CIRCUMFERENCE / d)) >= k iff
\* 2^k * d <= WORLD_CIRCUMFERENCE * sqrt(2) = 56674632.1...
WORLD_CIRCUMFERENCE_ROOT2 == 56674632

RECURSIVE log2Floor(_)
log2Floor(n) == IF n < 2 THEN 0 ELSE 1 + log2Floor(n \div 2)

\* least n >= m with d <= 2^m * WORLD_CIRCUMFERENCE_ROOT2
RECURSIVE halvings(_, _)
halvings(d, m) ==
    IF (d + 2^m - 1) \div 2^m <= WORLD_CIRCUMFERENCE_ROOT2 THEN m
    ELSE halvings(d, m + 1)

\* round(log2(d / WORLD_CIRCUMFERENCE)): the quotient taken upside down
calculateZoomFromResolution_inverted(resolution, tile_size) ==
    LET d == resolution * tile_size
    IN  IF d <= WORLD_CIRCUMFERENCE_ROOT2
        THEN 0 - log2Floor(WORLD_CIRCUMFERENCE_ROOT2 \div d)
        ELSE halvings(d, 1)

\* parseInt(Math.round(Math.log2(WORLD_CIRCUMFERENCE / (resolution * tile_size))))
\* for a resolution in whole metres per pixel and a tile size in pixels
calculateZoomFromResolution(resolution, tile_size) ==
    LET d == resolution * tile_size
    IN  IF d <= WORLD_CIRCUMFERENCE_ROOT2
        THEN log2Floor(WORLD_CIRCUMFERENCE_ROOT2 \div d)
        ELSE 0 - halvings(d, 1)

---------------------------------------------------------------------------
(* Inputs: paths, packages on disk, the bundle decoder *)

\* The bundle files of the model, by path under ./temp/v101/Map/_alllayers:
\* <<path, folder name, file name without ".bundle">>
BundleFiles ==
    {<<"L00/R0000C0000", <<"L","0","0">>, <<"R","0","0","0","0","C","0","0","0","0">>>>,
     <<"L01/R0000C0000", <<"L","0","1">>, <<"R","0","0","0","0","C","0","0","0","0">>>>,
     <<"L01/R000aC0000", <<"L","0","1">>, <<"R","0","0","0","a","C","0","0","0","0">>>>,
     <<"L02/RG000C00G0", <<"L","0","2">>, <<"R","G","0","0","0","C","0","0","G","0">>>>}

AllBundles == {f[1] : f \in BundleFiles}

\* Bundle files of folder L01 named R00hhC00hh, for the hex digits 0, 4, A
\* and B in both letter cases
NameDigits == {"0", "4", "A", "a", "B", "b"}
Names == {<<"R", "0", "0", h1, h2, "C", "0", "0", h3, h4>> :
             h1 \in NameDigits, h2 \in NameDigits,
             h3 \in NameDigits, h4 \in NameDigits}

RECURSIVE joined(_)
joined(s) == IF s = <<>> THEN "" ELSE Head(s) \o joined(Tail(s))

NameFiles == {<<"L01/" \o joined(n), <<"L","0","1">>, n>> : n \in Names}

\* parts[parts.length - 2] and path.basename(pathBundle, ".bundle")
folderOf(b) == (CHOOSE f \in BundleFiles \cup NameFiles : f[1] = b)[2]
basename(b) == (CHOOSE f \in BundleFiles \cup NameFiles : f[1] = b)[3]

Lod(id, resolution) == [LevelID |-> id, Resolution |-> resolution]

\* the standard ladder, zoom levels 0, 1, 2 at 256 pixels
LadderDown == <<Lod(0, 156543), Lod(1, 78272), Lod(2, 39136)>>
\* a ladder listed from the finest level up: zoom levels 2, 1
LadderUp == <<Lod(0, 39136), Lod(1, 78272)>>
\* a sparse ladder, without a level 1: zoom levels 0, 2, 3
LadderSparse == <<Lod(0, 156543), Lod(2, 39136), Lod(3, 19568)>>

PkgPng ==
    [format |-> <<"P","N","G","8">>, tile_size |-> 256, lods |-> LadderDown,
     bundles |-> {"L00/R0000C0000", "L01/R0000C0000", "L01/R000aC0000"}]
PkgMixed ==
    [format |-> <<"M","i","x","e","d">>, tile_size |-> 256, lods |-> LadderDown,
     bundles |-> {"L01/R0000C0000"}]
PkgMIXED ==
    [format |-> <<"M","I","X","E","D">>, tile_size |-> 256, lods |-> LadderDown,
     bundles |-> {"L01/R0000C0000"}]
PkgUp ==
    [format |-> <<"J","P","E","G">>, tile_size |-> 256, lods |-> LadderUp,
     bundles |-> {"L00/R0000C0000"}]
PkgBadNames ==
    [format |-> <<"P","N","G">>, tile_size |-> 256, lods |-> LadderSparse,
     bundles |-> {"L00/R0000C0000", "L02/RG000C00G0"}]

\* the files on disk that are tile packages, by path
PathPng == <<"a",".","t","p","k">>
PathMixed == <<"m",".","t","p","k">>
PathMIXED == <<"M",".","t","p","k">>
PathUp == <<"u",".","t","p","k">>
PathBadNames == <<"b",".","t","p","k">>
\* paths that name no file
PathGone == <<"g",".","t","p","k">>
PathGoneNoExt == <<"g">>

Disk == {<<PathPng, PkgPng>>, <<PathMixed, PkgMixed>>, <<PathMIXED, PkgMIXED>>,
         <<PathUp, PkgUp>>, <<PathBadNames, PkgBadNames>>}

\* what the user may type at the prompt
Paths == {<<>>, PathGone, PathGoneNoExt} \cup {d[1] : d \in Disk}

\* fs.existsSync(path) for the input path
existsSync(p) == \E d \in Disk : d[1] = p

PackageAt(p) == (CHOOSE d \in Disk : d[1] = p)[2]

\* The bundle decoder (tiler-arcgis-bundle) is an external collaborator.  One
\* environment fixes, for the whole behaviour, the tiles (x, y) for which the
\* decoder reports an error, those for which it returns zero-length data, and
\* the tiles whose file cannot be written.
Env(err, empty, wfail) == [err |-> err, empty |-> empty, wfail |-> wfail]

Envs == {Env({}, {}, {}),
         Env({}, {<<1, 0>>}, {}),
         Env({<<0, 1>>}, {<<1, 0>>}, {<<1, 1>>})}

\* the zoom arrays a caller passes to saveTiles; Default is the call
\* without an argument
Default == <<Undefined>>
ZoomArgs == {Default, <<2>>}

\* the export of a package that has returned most recently, if any
NoPath == <<"-">>

---------------------------------------------------------------------------
(* State *)

VARIABLES
    pc,         \* where the program is: "start", "rejected", "construct",
                \* "crashed", "loaded", "returned", "threw"
    path,       \* the path read at the prompt
    tpk,        \* the TPK object: format, tile_size, lods, zoom_levels
    arg,        \* the argument of the saveTiles call that reached readTiles
    zoom,       \* the array saveTiles handed to readTiles
    temp,       \* bundle files staged under ./temp
    conf,       \* ./temp/v101/Map/conf.xml: TileCols and the LODInfo list
    tilesRoot,  \* what ./tiles is: "absent", "file" or "dir"
    zdirs,      \* directories ./tiles/z
    xdirs,      \* directories ./tiles/z/x
    files,      \* tile files ./tiles/z/x/y.<ext>, as <<z, x, y>>
    tasks,      \* the async bundle tasks of readTiles, by bundle
    env,        \* the decoder and write faults of this behaviour
    runs,       \* program runs started
    ext,        \* the file extension saveTiles handed to readTiles
    exported    \* the path of the package whose export returned last

vars == <<pc, path, tpk, arg, zoom, temp, conf, tilesRoot, zdirs, xdirs, files,
          tasks, env, runs, ext, exported>>

NoTPK == [format |-> <<>>, tile_size |-> 0, lods |-> <<>>, zoom_levels |-> <<>>]
NoTasks == [b \in {} |-> 0]
Conf(tile_size, lods) == [tile_size |-> tile_size, lods |-> lods]
NoConf == Conf(0, <<>>)

Init ==
    /\ pc = "start"
    /\ path = <<>>
    /\ tpk = NoTPK
    /\ arg = Default
    /\ zoom = <<>>
    /\ temp = {}
    /\ conf = NoConf
    /\ tilesRoot \in {"absent", "file", "dir"}
    /\ zdirs = {}
    /\ xdirs = {}
    /\ files = {}
    /\ tasks = NoTasks
    /\ env \in Envs
    /\ runs = 1
    /\ ext = <<>>
    /\ exported = NoPath

---------------------------------------------------------------------------
(* src/index.js *)

Max(S) == CHOOSE m \in S : \A n \in S : n <= m

\* path.extname: from the last dot to the end, "" without a dot or when the
\* dot opens the name
extname(p) ==
    LET dots == {i \in DOMAIN p : p[i] = "."}
    IN  IF dots = {} \/ Max(dots) = 1 THEN <<>>
        ELSE SubSeq(p, Max(dots), Len(p))

\* the extension compared with its dot: a missing a.tpk is then let through
inputRejected_dotted(p) ==
    \/ p = <<>>
    \/ extname(p) # <<".","t","p","k">> /\ ~existsSync(p)

\* lines 7 and 10: !path, and extname(path) !== 'tpk' && !fs.existsSync(path)
inputRejected(p) ==
    \/ p = <<>>
    \/ extname(p) # <<"t","p","k">> /\ ~existsSync(p)

\* lines 6-12: read the path, stop with a message or go on to new TPK(path)
Main(p) ==
    /\ pc = "start"
    /\ path' = p
    /\ pc' = IF inputRejected(p) THEN "rejected" ELSE "construct"
    /\ UNCHANGED <<tpk, arg, zoom, temp, conf, tilesRoot, zdirs, xdirs,
                   files, tasks, env, runs, ext, exported>>

---------------------------------------------------------------------------
(* src/helper.js: constructor *)

\* lines 50-67: lods and zoom_levels, one entry per LODInfo in document order
loadLods(c) == [i \in DOMAIN c.lods |-> c.lods[i].LevelID]
loadZoomLevels(c) ==
    [i \in DOMAIN c.lods |->
        calculateZoomFromResolution(c.lods[i].Resolution, c.tile_size)]

\* lines 45-67: the fields of the object read from the tiling scheme
readConf(format, c) ==
    [format |-> format, tile_size |-> c.tile_size,
     lods |-> loadLods(c), zoom_levels |-> loadZoomLevels(c)]

\* new TPK(path): AdmZip throws for a path that names no file; otherwise the
\* archive is extracted over ./temp (nothing staged there is removed) and the
\* tiling scheme is read
NewTPK ==
    /\ pc = "construct"
    /\ IF ~existsSync(path)
       THEN /\ pc' = "crashed"
            /\ UNCHANGED <<tpk, temp, conf>>
       ELSE LET pkg == PackageAt(path)
            IN  /\ temp' = temp \cup pkg.bundles
                /\ conf' = Conf(pkg.tile_size, pkg.lods)
                /\ tpk' = readConf(pkg.format, conf')
                /\ pc' = "loaded"
    /\ UNCHANGED <<path, arg, zoom, tilesRoot, zdirs, xdirs, files, tasks,
                   env, runs, ext, exported>>

---------------------------------------------------------------------------
(* src/helper.js: readTiles *)

\* lines 156 and 177: the folder name without its first "L", as a number
lodOf(b) == NumberOf(replaceFirst(folderOf(b), "L"))

\* lines 157 and 180: this.zoom_levels[Number(lod)]
zoomOf(zoom_levels, b) == ArrayAt(zoom_levels, lodOf(b))

\* lines 142-163: the staged bundle files whose zoom level is truthy
discoverBundles(zoom_levels, staged) ==
    {b \in staged : Truthy(zoomOf(zoom_levels, b))}

\* lines 168-173: offsets from fixed positions of the file name
rowOffsetOf(b) == parseInt16(toUpperCase(substr(basename(b), 1, 4)))
columnOffsetOf(b) == parseInt16(toUpperCase(substr(basename(b), 6, 4)))

\* line 183: (1 << z) - 1, for 0 <= z <= 30
max_row_col(z) == 2^z - 1

\* line 186
max_index == BUNDLE_DIM * BUNDLE_DIM

\* a + b of two numbers, either of which may be NaN
Plus(a, b) == IF a = NaN \/ b = NaN THEN NaN ELSE a + b

\* the slots taken row by row: the column is the remainder
slotX_rowMajor(t, index) == Plus(t.columnOffset, index % BUNDLE_DIM)

\* lines 203-205
slotX(t, index) == Plus(t.columnOffset, index \div BUNDLE_DIM)
slotY(t, index) == Plus(t.rowOffset, index % BUNDLE_DIM)

\* 0 <= v <= m as JavaScript evaluates it: (0 <= v) <= m, the boolean taken
\* as 1 or 0; 0 <= NaN is false
chainedLe(v, m) == (IF v # NaN /\ 0 <= v THEN 1 ELSE 0) <= m

\* line 207
inScope(t, index) ==
    /\ chainedLe(slotX(t, index), max_row_col(t.z))
    /\ chainedLe(slotY(t, index), max_row_col(t.z))

\* lines 201-220 between two awaits: the loop runs on, without yielding, to
\* the next index whose slot passes line 207, or to max_index
RECURSIVE nextAwait(_, _)
nextAwait(t, index) ==
    IF index >= max_index THEN max_index
    ELSE IF inScope(t, index) THEN index
         ELSE nextAwait(t, index + 1)

\* a failure that ends the task: the exception leaves the loop
indexAfterCatch_abort(index) == max_index

\* lines 216-219: the catch logs the error and the loop goes on
indexAfterCatch(index) == index + 1

\* tiler.getTile(x, y, z, callback): "err", "empty" (zero-length data) or
\* "data"
getTile(x, y, z) ==
    IF <<x, y>> \in env.err THEN "err"
    ELSE IF <<x, y>> \in env.empty THEN "empty"
    ELSE "data"

\* the call is not awaited: the fetch stays outstanding while the task goes on
settled_unawaited(outstanding, index) == outstanding

\* line 208, await: the task goes on only when the promise of its fetch at
\* index has settled, and that fetch is outstanding no longer
settled(outstanding, index) == outstanding \ {index}

\* line 208, getTile(x, y, z): the fetches of a task that are outstanding once
\* it has run on to its await at index next, or off the end of the loop
issued(outstanding, next) ==
    IF next < max_index THEN outstanding \cup {next} ELSE outstanding

\* the directory is created whether or not it exists
dirMissing_unchecked(dirs, d) == TRUE

\* lines 210 and 211: !fs.existsSync(dir)
dirMissing(dirs, d) == d \notin dirs

\* lines 210 and 212: fs.mkdirSync(dir) throws EEXIST for a directory that
\* exists
mkdirThrows(dirs, d) == d \in dirs

\* lines 165-201: the start of one bundle's async function, up to its first
\* await; the fetch at that index is issued
startTask(zoom_levels, b) ==
    LET t0 == [z |-> zoomOf(zoom_levels, b),
               rowOffset |-> rowOffsetOf(b),
               columnOffset |-> columnOffsetOf(b),
               index |-> 0,
               fetched |-> {},
               outstanding |-> {},
               wrote |-> {},
               eexist |-> {}]
        first == nextAwait(t0, 0)
    IN  [t0 EXCEPT !.index = first,
                   !.fetched = IF first < max_index THEN {first} ELSE {},
                   !.outstanding = issued({}, first)]

Pending(t) == t.index < max_index

\* lines 208-220: the decoder's callback for the pending fetch of bundle b
\* settles the promise; the task, without yielding, creates the directories
\* that are missing and writes the tile (or skips it, or logs the error) and
\* runs on to its next await.  eexist collects the slots at which a mkdirSync
\* threw because the directory was there.
TileCallback(b) ==
    /\ b \in DOMAIN tasks
    /\ Pending(tasks[b])
    /\ LET t == tasks[b]
           x == slotX(t, t.index)
           y == slotY(t, t.index)
           got == getTile(x, y, t.z)
           zThrows == dirMissing(zdirs, t.z) /\ mkdirThrows(zdirs, t.z)
           xThrows == /\ ~zThrows
                      /\ dirMissing(xdirs, <<t.z, x>>)
                      /\ mkdirThrows(xdirs, <<t.z, x>>)
           writeFails == <<x, y>> \in env.wfail
           written == got = "data" /\ ~zThrows /\ ~xThrows /\ ~writeFails
           threw == got = "err" \/ (got = "data" /\ ~written)
       IN  \E resume \in {nextAwait(t, IF threw THEN indexAfterCatch(t.index)
                                                ELSE t.index + 1)} :
           /\ IF got = "data"
              THEN /\ zdirs' = IF dirMissing(zdirs, t.z) /\ ~zThrows
                               THEN zdirs \cup {t.z} ELSE zdirs
                   /\ xdirs' = IF ~zThrows /\ dirMissing(xdirs, <<t.z, x>>) /\ ~xThrows
                               THEN xdirs \cup {<<t.z, x>>} ELSE xdirs
                   /\ files' = IF written THEN files \cup {<<t.z, x, y>>}
                               ELSE files
              ELSE UNCHANGED <<zdirs, xdirs, files>>
           /\ tasks' = [tasks EXCEPT ![b] =
                  [t EXCEPT !.index = resume,
                            !.wrote = IF written THEN @ \cup {t.index} ELSE @,
                            !.eexist = IF got = "data" /\ (zThrows \/ xThrows)
                                       THEN @ \cup {t.index} ELSE @,
                            !.fetched = IF resume < max_index
                                        THEN @ \cup {resume} ELSE @,
                            !.outstanding = issued(settled(@, t.index), resume)]]
    /\ UNCHANGED <<pc, path, tpk, arg, zoom, temp, conf, tilesRoot, env,
                   runs, ext, exported>>

---------------------------------------------------------------------------
(* src/helper.js: saveTiles *)

AllDone == \A b \in DOMAIN tasks : ~Pending(tasks[b])

\* lines 125-139.  zoom defaults to this.zoom_levels itself, which the sort
\* then reorders in place; fs.unlinkSync throws for a directory; readTiles
\* starts every bundle task and returns at once.
SaveTiles(a) ==
    /\ pc \in {"loaded", "returned", "threw"}
    /\ LET lower == toLowerCase(tpk.format)
           sorted == sortAscending(IF a = Default THEN tpk.zoom_levels ELSE a)
           levels == IF a = Default THEN sorted ELSE tpk.zoom_levels
       IN  IF lower = <<"m","i","x","e","d">> \/ tilesRoot = "dir"
           THEN /\ pc' = "threw"
                /\ UNCHANGED <<tpk, arg, zoom, ext, exported, tilesRoot,
                               zdirs, xdirs, files, tasks>>
           ELSE /\ pc' = "returned"
                /\ exported' = path
                /\ tilesRoot' = "dir"
                /\ zdirs' = {}
                /\ xdirs' = {}
                /\ files' = {}
                /\ arg' = a
                /\ zoom' = sorted
                /\ ext' = stripDigits(lower)
                /\ tpk' = [tpk EXCEPT !.zoom_levels = levels]
                /\ tasks' = [b \in discoverBundles(levels, temp) |->
                                startTask(levels, b)]
    /\ UNCHANGED <<path, temp, conf, env, runs>>

---------------------------------------------------------------------------
(* The process ends and the program is started again *)

NextRun ==
    /\ pc \in {"rejected", "crashed", "returned", "threw"}
    /\ AllDone
    /\ runs < MaxRuns
    /\ runs' = runs + 1
    /\ pc' = "start"
    /\ path' = <<>>
    /\ tpk' = NoTPK
    /\ arg' = Default
    /\ zoom' = <<>>
    /\ tasks' = NoTasks
    /\ ext' = <<>>
    /\ UNCHANGED <<temp, conf, tilesRoot, zdirs, xdirs, files, env, exported>>

Next ==
    \/ \E p \in Paths : Main(p)
    \/ NewTPK
    \/ \E a \in ZoomArgs : SaveTiles(a)
    \/ \E b \in AllBundles : TileCallback(b)
    \/ NextRun

Spec == Init /\ [][Next]_vars

\* every decoder callback eventually fires
FairSpec == Spec /\ \A b \in AllBundles : WF_vars(TileCallback(b))

\* the types of the state, and what the program keeps true of it
TypeOK ==
    /\ pc \in {"start", "rejected", "construct", "crashed", "loaded",
               "returned", "threw"}
    /\ tilesRoot \in {"absent", "file", "dir"}
    /\ tilesRoot # "dir" => zdirs = {} /\ xdirs = {} /\ files = {} /\ tasks = NoTasks
    /\ DOMAIN tasks \subseteq temp
    /\ \A b \in DOMAIN tasks : tasks[b].index \in 0..max_index
    /\ runs \in 1..MaxRuns

---------------------------------------------------------------------------
(* The constructor's LOD loop on its own, over a wider set of ladders *)

\* resolutions in metres per pixel: the standard ones and ones between
\* them, on both sides of a rounding boundary (110692 / 110693)
Resolutions == {19568, 39136, 60000, 78272, 110692, 110693, 156543, 400000}
TileSizes == {256, 512}

\* lines 45-67 for a conf.xml already staged
LoadLevels ==
    /\ pc = "construct"
    /\ tpk' = readConf(<<"P","N","G">>, conf)
    /\ pc' = "loaded"
    /\ UNCHANGED <<path, arg, zoom, temp, conf, tilesRoot, zdirs, xdirs,
                   files, tasks, env, runs, ext, exported>>

ZoomInit ==
    /\ pc = "construct"
    /\ path = PathPng
    /\ tpk = NoTPK
    /\ arg = Default
    /\ zoom = <<>>
    /\ temp = {}
    /\ conf \in {Conf(ts, <<Lod(0, r1), Lod(1, r2)>>) :
                    ts \in TileSizes, r1 \in Resolutions, r2 \in Resolutions}
    /\ tilesRoot = "absent"
    /\ zdirs = {}
    /\ xdirs = {}
    /\ files = {}
    /\ tasks = NoTasks
    /\ env = Env({}, {}, {})
    /\ runs = 1
    /\ ext = <<>>
    /\ exported = NoPath

ZoomSpec == ZoomInit /\ [][LoadLevels]_vars

---------------------------------------------------------------------------
(* saveTiles on its own, called with every short zoom array *)

\* the longest zoom array passed and the highest zoom level in it
MaxZooms == 3
MaxLevel == 3

\* the zoom arrays a caller may pass: unsorted ones and ones with repeated
\* levels among them
ZoomLists == UNION {[1 .. n -> 0 .. MaxLevel] : n \in 0 .. MaxZooms}

\* u.tpk has been loaded by the constructor
SortInit ==
    /\ pc = "loaded"
    /\ path = PathUp
    /\ conf = Conf(PkgUp.tile_size, PkgUp.lods)
    /\ tpk = readConf(PkgUp.format, conf)
    /\ arg = Default
    /\ zoom = <<>>
    /\ temp = PkgUp.bundles
    /\ tilesRoot = "absent"
    /\ zdirs = {}
    /\ xdirs = {}
    /\ files = {}
    /\ tasks = NoTasks
    /\ env = Env({}, {}, {})
    /\ runs = 1
    /\ ext = <<>>
    /\ exported = NoPath

SortSpec == SortInit /\ [][\E a \in ZoomLists : SaveTiles(a)]_vars

---------------------------------------------------------------------------
(* saveTiles for a package of one bundle, over many bundle file names *)

\* a package with the standard ladder has been loaded whose one bundle file
\* is any of NameFiles
NameInit ==
    /\ pc = "loaded"
    /\ path = PathPng
    /\ conf = Conf(256, LadderDown)
    /\ tpk = readConf(<<"P","N","G">>, conf)
    /\ arg = Default
    /\ zoom = <<>>
    /\ temp \in {{f[1]} : f \in NameFiles}
    /\ tilesRoot = "absent"
    /\ zdirs = {}
    /\ xdirs = {}
    /\ files = {}
    /\ tasks = NoTasks
    /\ env = Env({}, {}, {})
    /\ runs = 1
    /\ ext = <<>>
    /\ exported = NoPath

NameSpec == NameInit /\ [][\E a \in ZoomArgs : SaveTiles(a)]_vars

---------------------------------------------------------------------------
(* Claims *)

Slots == 0 .. (max_index - 1)

\* the range test the specification states: both global coordinates of slot
\* i of a bundle at offsets (R, C) lie in [0, 2^Z - 1]
InRange(R, C, Z, i) ==
    /\ C + (i \div BUNDLE_DIM) \in 0 .. (2^Z - 1)
    /\ R + (i % BUNDLE_DIM) \in 0 .. (2^Z - 1)

Numeric(t) == t.rowOffset # NaN /\ t.columnOffset # NaN

\* slot i of task t lies in the range of t's zoom level
SlotInRange(t, i) == InRange(t.rowOffset, t.columnOffset, t.z, i)

\* C1: for a bundle at offsets (R, C) and zoom Z, no slot outside
\* [0, 2^Z - 1] x [0, 2^Z - 1] is fetched, and once the bundle's task has
\* finished the tiles written are exactly the slots in that range for which
\* the decoder returned data (stated for a decoder that reports no error and
\* a disk on which every write succeeds).
C1_ExactTileSet ==
    \A b \in DOMAIN tasks :
        LET t == tasks[b]
        IN  (Numeric(t) /\ env.err = {} /\ env.wfail = {}) =>
                /\ \A i \in t.fetched : SlotInRange(t, i)
                /\ ~Pending(t) =>
                      t.wrote = {i \in Slots :
                                    /\ SlotInRange(t, i)
                                    /\ getTile(slotX(t, i), slotY(t, i), t.z) # "empty"}

\* a format name that is "mixed" when letter case is ignored
IsMixedName(f) ==
    /\ Len(f) = 5
    /\ f[1] \in {"M", "m"}
    /\ f[2] \in {"I", "i"}
    /\ f[3] \in {"X", "x"}
    /\ f[4] \in {"E", "e"}
    /\ f[5] \in {"D", "d"}

\* C2: while the loaded package declares the format "Mixed" in any letter
\* case, a saveTiles call can only throw: no step reaches "returned", the
\* staging directory, the output root, its directories and files stay as
\* they were, and no bundle task exists.
C2_MixedFailsBeforeOutput ==
    [][(pc \in {"loaded", "returned", "threw"} /\ IsMixedName(tpk.format)) =>
          /\ pc' \in {"threw", "start"}
          /\ tasks = NoTasks
          /\ UNCHANGED <<temp, conf, tilesRoot, zdirs, xdirs, files, tasks>>]_vars

\* a saveTiles call on a "Mixed" package has thrown and ./tiles, a plain
\* file before the call, is still that file
C2_Witness ==
    /\ pc = "threw"
    /\ tpk.format = <<"M","i","x","e","d">>
    /\ tilesRoot = "file"
    /\ temp # {}

\* the slot's own fetch and write both succeed
SlotSucceeds(t, i) ==
    /\ getTile(slotX(t, i), slotY(t, i), t.z) = "data"
    /\ <<slotX(t, i), slotY(t, i)>> \notin env.wfail

\* task t has fetched every slot in range and written every slot in range
\* whose own fetch returned data and whose own write succeeded
SlotsServed(t) ==
    Numeric(t) =>
        \A i \in Slots :
            SlotInRange(t, i) =>
                /\ i \in t.fetched
                /\ SlotSucceeds(t, i) => i \in t.wrote

\* C3: whatever fetch or write failures the slots of the bundles meet, the
\* tasks that were started all eventually finish, each having fetched every
\* slot in range and written every slot in range whose own fetch returned
\* data and whose own write succeeded.
C3_FailureIsolation ==
    [](tasks # NoTasks =>
        <>(/\ tasks # NoTasks
           /\ AllDone
           /\ \A b \in DOMAIN tasks : SlotsServed(tasks[b])))

\* a finished task with a slot whose fetch failed, a slot whose write failed
\* and a later slot that was written
C3_Witness ==
    \E b \in DOMAIN tasks :
        LET t == tasks[b]
        IN  /\ ~Pending(t)
            /\ \E i, j, k \in t.fetched :
                  /\ i < k /\ j < k
                  /\ getTile(slotX(t, i), slotY(t, i), t.z) = "err"
                  /\ getTile(slotX(t, j), slotY(t, j), t.z) = "data"
                  /\ <<slotX(t, j), slotY(t, j)>> \in env.wfail
                  /\ k \in t.wrote

\* C4: when the export of a package has returned and its tasks have all
\* finished, a later run of the program on the same package exports it
\* again: its saveTiles call does not throw.
C4_RerunSucceeds ==
    (exported = path /\ tasks = NoTasks /\ files # {}) => pc # "threw"

\* C5: when saveTiles has returned, no bundle task has a pending fetch or an
\* unvisited slot.
C5_ReturnsAfterAllTasks ==
    pc = "returned" => AllDone

\* C6: when saveTiles was called with an explicit zoom array, a fetch is
\* made only for bundles whose zoom level is an element of that array.
C6_OnlyRequestedZooms ==
    \A b \in DOMAIN tasks :
        (arg # Default /\ tasks[b].fetched # {}) =>
            \E i \in DOMAIN arg : arg[i] = tasks[b].z

\* R + four hex digits + C + four hex digits
WellFormedName(n) ==
    /\ Len(n) = 10
    /\ n[1] = "R"
    /\ n[6] = "C"
    /\ \A i \in {2, 3, 4, 5, 7, 8, 9, 10} : HexDigit(n[i]) # NaN

\* C7: no fetch and no write is made for a bundle whose file name does not
\* match R<hhhh>C<hhhh>.
C7_MalformedNameExcluded ==
    \A b \in DOMAIN tasks :
        ~WellFormedName(basename(b)) =>
            tasks[b].fetched = {} /\ tasks[b].wrote = {}

\* C8: while a TPK object exists, lods and zoom_levels have the same length
\* and zoom_levels[i] is the zoom level of the resolution of the LOD at
\* index i of the tiling scheme it was loaded from.
C8_ZoomLevelsAligned ==
    pc \in {"loaded", "returned", "threw"} =>
        /\ Len(tpk.lods) = Len(tpk.zoom_levels)
        /\ Len(tpk.lods) = Len(conf.lods)
        /\ \A i \in DOMAIN conf.lods :
              tpk.zoom_levels[i] =
                  calculateZoomFromResolution(conf.lods[i].Resolution, conf.tile_size)

\* C9: a path that is empty or names no file sends the program from the
\* prompt to its message and nowhere else: nothing is extracted, the output
\* root is untouched and no task is started, and from the message the
\* program can only end.
C9_BadPathRejected ==
    [][/\ (pc = "start" /\ (path' = <<>> \/ ~existsSync(path'))) =>
            /\ pc' = "rejected"
            /\ UNCHANGED <<tpk, temp, conf, tilesRoot, zdirs, xdirs, files, tasks>>
       /\ pc = "rejected" =>
            /\ pc' = "start"
            /\ UNCHANGED <<temp, conf, tilesRoot, zdirs, xdirs, files>>]_vars

\* the program has stopped at its message for a path that names no file, and
\* nothing was staged
C9_Witness ==
    /\ pc = "rejected"
    /\ path = PathGone
    /\ temp = {}
    /\ tpk = NoTPK

\* C10: of two LODs of one ladder, loaded with one tile size, the one with
\* the smaller resolution has the greater or equal zoom level.
C10_ZoomMonotone ==
    pc = "loaded" =>
        \A i, j \in DOMAIN conf.lods :
            conf.lods[i].Resolution < conf.lods[j].Resolution =>
                tpk.zoom_levels[i] >= tpk.zoom_levels[j]

\* a ladder whose second resolution is the smaller one and whose second zoom
\* level is the strictly greater one
C10_Witness ==
    /\ pc = "loaded"
    /\ Len(conf.lods) = 2
    /\ conf.lods[2].Resolution < conf.lods[1].Resolution
    /\ tpk.zoom_levels[2] > tpk.zoom_levels[1]

\* what the slot's settled fetch had to leave behind is there: the tile file,
\* in its directories, when the fetch returned data and the write succeeded
OutcomeInPlace(t, i) ==
    SlotSucceeds(t, i) =>
        /\ i \in t.wrote
        /\ <<t.z, slotX(t, i), slotY(t, i)>> \in files

\* C11: a bundle task has at most one decoder fetch outstanding, and when the
\* fetch of a slot is outstanding every slot fetched before it has a lower
\* index, is settled and has its outcome (file written, or skipped, or
\* failure logged) in place.  That fetches of different bundles are
\* outstanding together, one task running ahead of the other, is
\* C11_Witness.
C11_OneFetchPerTask ==
    \A b \in DOMAIN tasks :
        LET t == tasks[b]
        IN  /\ Cardinality(t.outstanding) <= 1
            /\ t.outstanding \subseteq t.fetched
            /\ \A j \in t.outstanding :
                  \A i \in t.fetched \ {j} :
                      /\ i < j
                      /\ i \notin t.outstanding
                      /\ OutcomeInPlace(t, i)

\* two bundle tasks each have a fetch outstanding; one has had slots settled
\* and written while the other still waits for its first
C11_Witness ==
    \E b1, b2 \in DOMAIN tasks :
        /\ b1 # b2
        /\ tasks[b1].outstanding # {}
        /\ tasks[b2].outstanding # {}
        /\ Cardinality(tasks[b1].wrote) >= 2
        /\ Cardinality(tasks[b2].fetched) = 1

\* C12: whatever the interleaving of the bundle tasks, no mkdirSync throws
\* because its directory exists, and every slot whose fetch has settled with
\* data (and whose file write did not fail) has its tile file, inside its
\* zoom directory and its zoom/column directory.
C12_DirectoriesCreatedOnce ==
    \A b \in DOMAIN tasks :
        LET t == tasks[b]
        IN  /\ t.eexist = {}
            /\ \A i \in t.fetched \ t.outstanding :
                  SlotSucceeds(t, i) =>
                      /\ <<t.z, slotX(t, i), slotY(t, i)>> \in files
                      /\ <<t.z, slotX(t, i)>> \in xdirs
                      /\ t.z \in zdirs

\* two unfinished bundle tasks have both written tiles into one and the same
\* zoom/column directory
C12_Witness ==
    \E b1, b2 \in DOMAIN tasks :
        /\ b1 # b2
        /\ Pending(tasks[b1])
        /\ Pending(tasks[b2])
        /\ tasks[b1].z = tasks[b2].z
        /\ \E i \in tasks[b1].wrote, j \in tasks[b2].wrote :
              /\ slotX(tasks[b1], i) = slotX(tasks[b2], j)
              /\ slotX(tasks[b1], i) # NaN

\* the loop of task t is over, and no slot that passed the test of line 207
\* went without its fetch
LoopDone(t) ==
    /\ t.index = max_index
    /\ t.outstanding = {}
    /\ \A i \in Slots : inScope(t, i) => i \in t.fetched

\* one step of an existing task, from record t to record u: the index does
\* not go back, a fetch is issued for an index only once and only above every
\* index fetched before, and a tile written for index i is the tile in local
\* column i div BUNDLE_DIM and local row i mod BUNDLE_DIM
AscendingStep(t, u, newFiles) ==
    /\ u.index >= t.index
    /\ t.fetched \subseteq u.fetched
    /\ \A j \in u.fetched \ t.fetched :
          /\ j = u.index
          /\ \A i \in t.fetched : i < j
    /\ \A i \in u.wrote \ t.wrote :
          /\ i = t.index
          /\ Numeric(t) =>
                newFiles \subseteq {<<t.z, t.columnOffset + (i \div BUNDLE_DIM),
                                      t.rowOffset + (i % BUNDLE_DIM)>>}

\* C13: a bundle task goes through the slot indices upwards, fetching a slot
\* at most once and none out of order, index i standing for local column
\* i div BUNDLE_DIM and local row i mod BUNDLE_DIM; and when every decoder
\* callback eventually fires, the tasks that were started all reach the end
\* of their loop, whatever the decoder returned.
C13_AscendingAndTerminates ==
    /\ [][\A b \in DOMAIN tasks \cap DOMAIN tasks' :
             AscendingStep(tasks[b], tasks'[b], files' \ files)]_vars
    /\ [](tasks # NoTasks =>
            <>(/\ tasks # NoTasks
               /\ \A b \in DOMAIN tasks : LoopDone(tasks[b])))

\* a task is over that has fetched every one of its slots, among them one
\* for which the decoder reported an error and one that came back empty
C13_Witness ==
    \E b \in DOMAIN tasks :
        LET t == tasks[b]
        IN  /\ LoopDone(t)
            /\ t.fetched = Slots
            /\ \E i, j \in Slots :
                  /\ getTile(slotX(t, i), slotY(t, i), t.z) = "err"
                  /\ getTile(slotX(t, j), slotY(t, j), t.z) = "empty"

\* the folder ordinal of bundle b is a position of the zoom table
HasZoomEntry(zoom_levels, b) ==
    lodOf(b) \in 0 .. (Len(zoom_levels) - 1)

\* C14: when saveTiles has returned, a staged bundle is without a task if
\* and only if its folder ordinal has no entry in the zoom table of the
\* loaded package; a bundle whose entry is zoom level 0 has a task.
C14_ExcludedIffUnmapped ==
    pc = "returned" =>
        \A b \in temp :
            (b \notin DOMAIN tasks) <=> ~HasZoomEntry(tpk.zoom_levels, b)

\* C15: the array saveTiles hands to readTiles for an explicit zoom array is
\* strictly increasing and has the same set of values as the array passed.
C15_ZoomsNormalized ==
    (pc = "returned" /\ arg # Default) =>
        /\ \A i \in 1 .. (Len(zoom) - 1) : zoom[i] < zoom[i + 1]
        /\ {zoom[i] : i \in DOMAIN zoom} = {arg[i] : i \in DOMAIN arg}

\* the value of a hexadecimal digit written in either letter case
HexUpper == <<"0","1","2","3","4","5","6","7","8","9","A","B","C","D","E","F">>
HexLower == <<"0","1","2","3","4","5","6","7","8","9","a","b","c","d","e","f">>
IsHex(c) == \E k \in 1 .. 16 : c = HexUpper[k] \/ c = HexLower[k]
ValueOfHex(c) == (CHOOSE k \in 1 .. 16 : c = HexUpper[k] \/ c = HexLower[k]) - 1

\* the number written by the four characters of n that follow position at
FieldValue(n, at) ==
    4096 * ValueOfHex(n[at + 1]) + 256 * ValueOfHex(n[at + 2])
        + 16 * ValueOfHex(n[at + 3]) + ValueOfHex(n[at + 4])

\* R, four hex digits, C, four hex digits
IsBundleName(n) ==
    /\ Len(n) = 10
    /\ n[1] = "R"
    /\ n[6] = "C"
    /\ \A i \in {2, 3, 4, 5, 7, 8, 9, 10} : IsHex(n[i])

\* C16: the task of a bundle named R<hhhh>C<hhhh>, its hex digits in either
\* letter case, has the value of the first field as its rowOffset and the
\* value of the second as its columnOffset.
C16_OffsetsFromHex ==
    \A b \in DOMAIN tasks :
        IsBundleName(basename(b)) =>
            /\ tasks[b].rowOffset = FieldValue(basename(b), 1)
            /\ tasks[b].columnOffset = FieldValue(basename(b), 6)

\* the task of R00a0C00b4 has the offsets 160 and 180
C16_Witness ==
    \E b \in DOMAIN tasks :
        /\ basename(b) = <<"R","0","0","a","0","C","0","0","b","4">>
        /\ tasks[b].rowOffset = 160
        /\ tasks[b].columnOffset = 180

\* C17: the zoom level of the task of a bundle in folder L<k> is the zoom
\* level of the resolution of the LOD of the loaded tiling scheme whose
\* LevelID is k.
C17_ZoomByLevelID ==
    \A b \in DOMAIN tasks :
        \A i \in DOMAIN conf.lods :
            conf.lods[i].LevelID = lodOf(b) =>
                tasks[b].z = calculateZoomFromResolution(conf.lods[i].Resolution,
                                                         conf.tile_size)

\* C18: the bundles that have a task in a run are bundles of the package
\* loaded in that run, and the tiles fetched and written are theirs alone.
C18_OnlyOwnBundles ==
    \A b \in DOMAIN tasks : b \in PackageAt(path).bundles

====
